---------------------------- MODULE Spec2Model ----------------------------
(***************************************************************************)
(* ScrabbleTimer: the App component (src/App.tsx, and its plain-JS twin    *)
(* src/index.js, which also renders it under React.StrictMode) together    *)
(* with the three platform capabilities it drives: localStorage, the       *)
(* repeating timer and the Screen Wake Lock API.                           *)
(*                                                                         *)
(* One action models one task of the browser's event loop: the handler,    *)
(* the re-render it causes and every effect (cleanup and body) of that     *)
(* commit, up to the first point where the code waits for the platform.    *)
(***************************************************************************)
EXTENDS Integers, Sequences, FiniteSets

\* ------------------------------------------------------------------ bounds
MaxTime == 3        \* a timer stops firing once a numeric elapsed value reaches this
MaxStrLen == 3      \* ... or once a string-valued elapsed value is this long
MaxStored == 2      \* well-formed initial records hold times 0..MaxStored
MaxLocks == 3       \* wake-lock requests in flight plus live sentinels
MaxRoundTrip == 12  \* the round-trip specification saves times 0..MaxRoundTrip
MaxWarnings == 4    \* 'not supported' warnings logged since the page was opened
MaxElapsed == 90    \* the render specification draws times 0..MaxElapsed

\* ------------------------------------------------------- JavaScript values
\* A JavaScript value as far as the program can hold one in player1Time or
\* player2Time, or read one out of a parsed record.
Num(n) == [k |-> "num", n |-> n, s |-> <<>>]
Str(s) == [k |-> "str", n |-> 0, s |-> s]
Undefined == [k |-> "undef", n |-> 0, s |-> <<>>]
Null == [k |-> "null", n |-> 0, s |-> <<>>]

\* JavaScript truthiness: 0, "", null and undefined are falsy.
Truthy(v) ==
  CASE v.k = "num" -> v.n # 0
    [] v.k = "str" -> v.s # <<>>
    [] OTHER -> FALSE

\* `x || 0`
OrZero(v) == IF Truthy(v) THEN v ELSE Num(0)

\* `prev + 1`: addition on a number, concatenation on a string.
PlusOne(v) == IF v.k = "str" THEN Str(v.s \o <<"1">>) ELSE Num(v.n + 1)

\* ------------------------------------------------------------- JSON text
\* A text is a sequence of characters.
DigitChars == <<"0", "1", "2", "3", "4", "5", "6", "7", "8", "9">>
IsDigit(c) == \E d \in 1..10 : DigitChars[d] = c
DigitValue(c) == (CHOOSE d \in 1..10 : DigitChars[d] = c) - 1
QuoteChar == "\""
KeyP1 == <<"p", "1", "T", "i", "m", "e">>
KeyP2 == <<"p", "2", "T", "i", "m", "e">>
NullText == <<"n", "u", "l", "l">>

\* (mutant) the digits written least significant first
RECURSIVE NatToCharsReversed(_)
NatToCharsReversed(n) ==
  IF n < 10 THEN <<DigitChars[n + 1]>>
  ELSE <<DigitChars[(n % 10) + 1]>> \o NatToCharsReversed(n \div 10)

RECURSIVE NatToChars(_)
NatToChars(n) ==
  IF n < 10 THEN <<DigitChars[n + 1]>>
  ELSE NatToChars(n \div 10) \o <<DigitChars[(n % 10) + 1]>>

IntToChars(n) == IF n < 0 THEN <<"-">> \o NatToChars(0 - n) ELSE NatToChars(n)

Quoted(s) == <<QuoteChar>> \o s \o <<QuoteChar>>

\* JSON.stringify of one field value (numbers are integers here; the strings
\* that can reach the state hold no character that needs escaping).
ValToJson(v) == IF v.k = "str" THEN Quoted(v.s) ELSE IntToChars(v.n)

\* JSON.stringify({p1Time: v1, p2Time: v2})
Stringify(v1, v2) ==
  <<"{">> \o Quoted(KeyP1) \o <<":">> \o ValToJson(v1) \o <<",">>
          \o Quoted(KeyP2) \o <<":">> \o ValToJson(v2) \o <<"}">>

\* JSON.parse, on the JSON texts made of: an object whose members hold
\* integers, strings or null; a bare integer; a bare string; null.
\* A parse step yields [ok, k, n, s, i]: the value and the index after it.
Fail == [ok |-> FALSE, k |-> "undef", n |-> 0, s |-> <<>>, i |-> 0]
At(t, i) == IF i >= 1 /\ i <= Len(t) THEN t[i] ELSE "EOF"

RECURSIVE DigitsEnd(_, _)
DigitsEnd(t, i) == IF IsDigit(At(t, i)) THEN DigitsEnd(t, i + 1) ELSE i

RECURSIVE DigitsValue(_, _, _, _)
DigitsValue(t, i, j, acc) ==
  IF i >= j THEN acc ELSE DigitsValue(t, i + 1, j, acc * 10 + DigitValue(t[i]))

RECURSIVE StringEnd(_, _)
StringEnd(t, i) ==
  IF At(t, i) = "EOF" THEN 0
  ELSE IF t[i] = QuoteChar THEN i ELSE StringEnd(t, i + 1)

ParseNumber(t, i) ==
  LET neg == At(t, i) = "-"
      b == IF neg THEN i + 1 ELSE i
      e == DigitsEnd(t, b)
  IN  IF e = b THEN Fail
      ELSE IF At(t, b) = "0" /\ e > b + 1 THEN Fail
      ELSE LET m == DigitsValue(t, b, e, 0)
           IN  [ok |-> TRUE, k |-> "num", n |-> IF neg THEN 0 - m ELSE m,
                s |-> <<>>, i |-> e]

ParseString(t, i) ==
  LET e == StringEnd(t, i + 1)
  IN  IF At(t, i) # QuoteChar \/ e = 0 THEN Fail
      ELSE [ok |-> TRUE, k |-> "str", n |-> 0, s |-> SubSeq(t, i + 1, e - 1),
            i |-> e + 1]

ParsePrimitive(t, i) ==
  IF At(t, i) = QuoteChar THEN ParseString(t, i)
  ELSE IF At(t, i) = "-" \/ IsDigit(At(t, i)) THEN ParseNumber(t, i)
  ELSE IF i + 3 <= Len(t) /\ SubSeq(t, i, i + 3) = NullText
       THEN [ok |-> TRUE, k |-> "null", n |-> 0, s |-> <<>>, i |-> i + 4]
  ELSE Fail

ValueOf(r) == [k |-> r.k, n |-> r.n, s |-> r.s]

\* The members of an object from index i on, p1 and p2 being the values of
\* p1Time and p2Time read so far (a repeated key keeps its last value).
RECURSIVE ParseMembers(_, _, _, _)
ParseMembers(t, i, p1, p2) ==
  LET key == ParseString(t, i)
      val == IF key.ok /\ At(t, key.i) = ":"
             THEN ParsePrimitive(t, key.i + 1) ELSE Fail
      q1 == IF key.s = KeyP1 THEN ValueOf(val) ELSE p1
      q2 == IF key.s = KeyP2 THEN ValueOf(val) ELSE p2
  IN  IF ~val.ok THEN [ok |-> FALSE, p1 |-> p1, p2 |-> p2, i |-> 0]
      ELSE IF At(t, val.i) = "," THEN ParseMembers(t, val.i + 1, q1, q2)
      ELSE IF At(t, val.i) = "}"
           THEN [ok |-> TRUE, p1 |-> q1, p2 |-> q2, i |-> val.i + 1]
      ELSE [ok |-> FALSE, p1 |-> p1, p2 |-> p2, i |-> 0]

\* JSON.parse(t): [ok, k, p1, p2]; ok = FALSE is a SyntaxError. k is "obj"
\* for an object (p1, p2 its p1Time and p2Time, Undefined when missing) and
\* the primitive's kind otherwise.
JSONParse(t) ==
  IF At(t, 1) = "{"
  THEN LET m == IF At(t, 2) = "}"
                THEN [ok |-> TRUE, p1 |-> Undefined, p2 |-> Undefined, i |-> 3]
                ELSE ParseMembers(t, 2, Undefined, Undefined)
       IN  [ok |-> m.ok /\ m.i = Len(t) + 1, k |-> "obj",
            p1 |-> m.p1, p2 |-> m.p2]
  ELSE LET r == ParsePrimitive(t, 1)
       IN  [ok |-> r.ok /\ r.i = Len(t) + 1, k |-> r.k,
            p1 |-> Undefined, p2 |-> Undefined]

\* ------------------------------------------------------------------ state
VARIABLES
  phase,             \* "boot": page loaded, App not yet mounted; "mounted";
                     \* "crashed": React unmounted the tree after an uncaught
                     \* error in an effect; "rt_*": the round-trip harness
  devBuild,          \* development build: React.StrictMode runs every effect
                     \* twice on mount (index.js renders App under StrictMode)
  storageMode,       \* "ok", "quota" (setItem throws) or "denied" (every
                     \* localStorage access throws)
  storage,           \* the localStorage item 'scrabbleTimerState'
  player1Time,
  player2Time,
  activePlayer,      \* "player1", "player2" or "none" (null)
  intervals,         \* live setInterval timers, each by the player its
                     \* callback captured
  wakeLockRef,       \* wakeLockRef.current: 0 (null) or a sentinel
  liveLocks,         \* the sentinels the platform holds unreleased
  pendingRequests,   \* navigator.wakeLock.request calls not yet settled
  visible,           \* document.visibilityState === 'visible'
  loadError,        \* the error logged with "Failed to load state from
                     \* localStorage" since the page was opened, or "none"
  wakeLockSupported, \* 'wakeLock' in navigator
  unsupportedWarnings,  \* how many times 'Screen Wake Lock API not
                        \* supported' was logged since the page was opened
  deniedWarningLogged   \* whether 'Screen Wake Lock was denied' was logged
                        \* since the page was opened

vars == <<phase, devBuild, storageMode, storage, player1Time, player2Time,
          activePlayer, intervals, wakeLockRef, liveLocks, pendingRequests,
          visible, loadError, wakeLockSupported,
                 unsupportedWarnings, deniedWarningLogged>>

Players == {"player1", "player2"}
LockIds == 1..MaxLocks

NoItem == [present |-> FALSE, text |-> <<>>]
Item(t) == [present |-> TRUE, text |-> t]

\* What the item may hold when the page is opened: nothing, the empty text,
\* a record this program wrote, or something else wrote or damaged.
WellFormedTexts == {Stringify(Num(a), Num(b)) : a, b \in 0..MaxStored}
UnparseableTexts == {<<"{">>, <<"{">> \o Quoted(KeyP1) \o <<":", "1", ",", "}">>}
OddTexts ==
  { NullText,
    <<"7">>,
    <<"{", "}">>,
    <<"{">> \o Quoted(KeyP1) \o <<":", "1", "}">>,
    <<"{">> \o Quoted(KeyP2) \o <<":", "2", "}">>,
    Stringify(Str(<<"x">>), Num(1)),
    Stringify(Num(1), Str(<<"x">>)),
    Stringify(Num(-1), Num(1)) }
InitialItems ==
  {NoItem, Item(<<>>)}
    \cup {Item(t) : t \in WellFormedTexts \cup UnparseableTexts \cup OddTexts}

\* --------------------------------------------------------- localStorage
GetItemThrows(m) == m = "denied"
SetItemThrows(m) == m \in {"quota", "denied"}
RemoveItemThrows(m) == m = "denied"

\* (mutant) the load effect without its try/catch
LoadParsedUncaught(st, r) ==
  IF ~r.ok \/ r.k = "null"
  THEN [storage |-> st, set |-> FALSE, p1 |-> Num(0), p2 |-> Num(0),
        caught |-> "none", threw |-> TRUE]
  ELSE [storage |-> st, set |-> TRUE, p1 |-> OrZero(r.p1), p2 |-> OrZero(r.p2),
        caught |-> "none", threw |-> FALSE]

\* The load effect's body, on item st under storage mode m: the item it
\* leaves, whether it called setPlayer1Time/setPlayer2Time and with what,
\* and whether an error left the effect.
NothingLoaded(st) ==
  [storage |-> st, set |-> FALSE, p1 |-> Num(0), p2 |-> Num(0),
   caught |-> "none", threw |-> FALSE]

\* ... from JSON.parse on: r is the outcome of JSON.parse(savedState).
LoadParsed(st, r) ==
  IF ~r.ok \/ r.k = "null"
  THEN \* SyntaxError, or TypeError destructuring null: the catch block
       [NothingLoaded(st) EXCEPT
          !.caught = IF r.ok THEN "TypeError" ELSE "SyntaxError",
          !.storage = NoItem]
  ELSE [NothingLoaded(st) EXCEPT !.set = TRUE, !.p1 = OrZero(r.p1),
                                 !.p2 = OrZero(r.p2)]

LoadEffect(st, m) ==
  IF GetItemThrows(m)
  THEN \* getItem throws; the catch block's removeItem throws as well
       [NothingLoaded(st) EXCEPT !.caught = "SecurityError",
                                 !.threw = RemoveItemThrows(m)]
  ELSE IF ~st.present \/ st.text = <<>>
  THEN NothingLoaded(st)                       \* savedState is null or ""
  ELSE LoadParsed(st, JSONParse(st.text))

\* (mutant) the save effect writes nothing
SaveEffectSkipped(st, m, v1, v2) == [storage |-> st, threw |-> FALSE]

\* The save effect's body.
SaveEffect(st, m, v1, v2) ==
  IF SetItemThrows(m) THEN [storage |-> st, threw |-> TRUE]
  ELSE [storage |-> Item(Stringify(v1, v2)), threw |-> FALSE]

\* ------------------------------------------------------------ wake lock
\* The controller's view of the wake lock, [ref, live, pending], and what it
\* has logged, [unsupported, denied].
WakeState ==
  [ref |-> wakeLockRef, live |-> liveLocks, pending |-> pendingRequests,
   unsupported |-> unsupportedWarnings, denied |-> deniedWarningLogged]

\* releaseWakeLock(): sentinel.release() marks the sentinel released and
\* fires its 'release' event before it returns (the listener clears the
\* ref); the line after the await clears the ref again.
ReleaseWakeLock(w) ==
  IF w.ref # 0 /\ w.ref \in w.live
  THEN [w EXCEPT !.ref = 0, !.live = w.live \ {w.ref}]
  ELSE w

\* (mutant) the guard of requestWakeLock inverted
RequestWakeLockInverted(w, vis) ==
  IF w.ref # 0 /\ w.ref \in w.live
  THEN IF vis THEN [w EXCEPT !.pending = w.pending + 1]
       ELSE [w EXCEPT !.denied = TRUE]
  ELSE w

\* requestWakeLock() up to its await: a request is made unless a live
\* sentinel is referenced; a hidden page's request is rejected at once with
\* NotAllowedError, which the catch block logs.
RequestWakeLock(w, vis) ==
  IF w.ref = 0 \/ w.ref \notin w.live
  THEN IF vis THEN [w EXCEPT !.pending = w.pending + 1]
       ELSE [w EXCEPT !.denied = TRUE]
  ELSE w

\* The wake lock effect's body for activePlayer = new: without the API it
\* logs the warning and returns, registering no cleanup.
WakeLockBody(w, new, vis, supported) ==
  IF ~supported THEN [w EXCEPT !.unsupported = w.unsupported + 1]
  ELSE IF new # "none" THEN RequestWakeLock(w, vis) ELSE ReleaseWakeLock(w)

\* The wake lock effect's cleanup (a change of activePlayer, or unmount).
WakeLockCleanup(w, supported) == IF supported THEN ReleaseWakeLock(w) ELSE w

\* The wake lock effect when activePlayer changes to new: the previous
\* effect's cleanup, then the new effect's body.
WakeLockEffect(w, new, vis, supported) ==
  WakeLockBody(WakeLockCleanup(w, supported), new, vis, supported)

\* The wake lock effect when App mounts, nobody active: under StrictMode in
\* a development build the body, the cleanup and the body again.
WakeLockMount(w, vis, supported, dev) ==
  IF dev
  THEN WakeLockEffect(WakeLockBody(w, "none", vis, supported), "none", vis,
                      supported)
  ELSE WakeLockBody(w, "none", vis, supported)

WithinCap(w) ==
  /\ w.pending + Cardinality(w.live) <= MaxLocks
  /\ w.unsupported <= MaxWarnings

\* ---------------------------------------------------------------- timer
\* (mutant) the cleanup does not clear the interval
TimerCleanupKeeps(ivs, old) == ivs

\* The timer effect's cleanup for the effect that captured old, and its body
\* for new.
TimerCleanup(ivs, old) == ivs \ {old}
TimerBody(ivs, new) == IF new # "none" THEN ivs \cup {new} ELSE ivs
TimerEffect(ivs, old, new) == TimerBody(TimerCleanup(ivs, old), new)

\* (mutant) the tapped player's own clock starts
OpponentSame(tappedPlayer) == tappedPlayer

Opponent(tappedPlayer) == IF tappedPlayer = "player1" THEN "player2" ELSE "player1"

\* -------------------------------------------------------------- commits
\* React unmounts the tree after an uncaught error in an effect: every
\* effect's cleanup runs and the component's state is gone.
Crash(w) ==
  /\ phase' = "crashed"
  /\ activePlayer' = "none"
  /\ intervals' = {}
  /\ wakeLockRef' = WakeLockCleanup(w, wakeLockSupported).ref
  /\ liveLocks' = WakeLockCleanup(w, wakeLockSupported).live
  /\ pendingRequests' = w.pending
  /\ unsupportedWarnings' = w.unsupported
  /\ deniedWarningLogged' = w.denied

\* (mutant) the effects re-run although activePlayer did not change
CommitActiveAlways(new) ==
  LET w == WakeLockEffect(WakeState, new, visible, wakeLockSupported)
  IN  /\ WithinCap(w)
      /\ activePlayer' = new
      /\ intervals' = TimerEffect(intervals, activePlayer, new)
      /\ wakeLockRef' = w.ref
      /\ liveLocks' = w.live
      /\ pendingRequests' = w.pending
      /\ unsupportedWarnings' = w.unsupported
      /\ deniedWarningLogged' = w.denied

\* The commit after setActivePlayer(new), the elapsed times unchanged: the
\* timer effect and the wake lock effect re-run when activePlayer changed
\* (React bails out of a state update to the same value).
CommitActive(new) ==
  LET w == IF new = activePlayer THEN WakeState
           ELSE WakeLockEffect(WakeState, new, visible, wakeLockSupported)
  IN  /\ WithinCap(w)
      /\ activePlayer' = new
      /\ intervals' = IF new = activePlayer THEN intervals
                      ELSE TimerEffect(intervals, activePlayer, new)
      /\ wakeLockRef' = w.ref
      /\ liveLocks' = w.live
      /\ pendingRequests' = w.pending
      /\ unsupportedWarnings' = w.unsupported
      /\ deniedWarningLogged' = w.denied

Init ==
  /\ phase = "boot"
  /\ devBuild \in BOOLEAN
  /\ storageMode = "ok"
  /\ storage \in InitialItems
  /\ player1Time = Num(0)
  /\ player2Time = Num(0)
  /\ activePlayer = "none"
  /\ intervals = {}
  /\ wakeLockRef = 0
  /\ liveLocks = {}
  /\ pendingRequests = 0
  /\ visible = TRUE
  /\ loadError = "none"
  /\ wakeLockSupported \in BOOLEAN
  /\ unsupportedWarnings = 0
  /\ deniedWarningLogged = FALSE

\* One pass of the mount effects that touch the item, in declaration order:
\* the load effect, then the save effect, which sees the first render's
\* times (0, 0).
PassResult(l, s) ==
  [storage |-> s.storage, set |-> l.set, p1 |-> l.p1, p2 |-> l.p2,
   caught |-> l.caught, threw |-> l.threw \/ s.threw]
PassAfterLoad(l, m) == PassResult(l, SaveEffect(l.storage, m, Num(0), Num(0)))
MountPass(st, m) == PassAfterLoad(LoadEffect(st, m), m)

\* Pass a followed by pass b: of the queued setState calls the last wins.
Later(a, b) ==
  [storage |-> b.storage, set |-> a.set \/ b.set,
   p1 |-> IF b.set THEN b.p1 ELSE a.p1, p2 |-> IF b.set THEN b.p2 ELSE a.p2,
   caught |-> IF a.caught # "none" THEN a.caught ELSE b.caught, threw |-> a.threw \/ b.threw]
SecondPass(a, m) == Later(a, MountPass(a.storage, m))

\* Under StrictMode in a development build React runs the mount effects,
\* their cleanups, and the effects again, all on the first render's state.
MountEffects(st, m, dev) ==
  IF dev THEN SecondPass(MountPass(st, m), m) ELSE MountPass(st, m)

\* The re-render that the queued setState calls cause: the save effect runs
\* again when a time differs from the first render's.
SaveResult(s, p1, p2, caught) ==
  [storage |-> s.storage, p1 |-> p1, p2 |-> p2, caught |-> caught,
   threw |-> s.threw]
MountRerender(st, m, p1, p2, caught) ==
  IF <<p1, p2>> # <<Num(0), Num(0)>>
  THEN SaveResult(SaveEffect(st, m, p1, p2), p1, p2, caught)
  ELSE [storage |-> st, p1 |-> p1, p2 |-> p2, caught |-> caught,
        threw |-> FALSE]

MountSettle(e, m) ==
  IF e.threw
  THEN [storage |-> e.storage, p1 |-> Num(0), p2 |-> Num(0),
        caught |-> e.caught, threw |-> TRUE]
  ELSE MountRerender(e.storage, m, e.p1, e.p2, e.caught)

\* Mounting App on item st: the item left, the times rendered, and whether
\* an effect threw.
MountOutcome(st, m, dev) == MountSettle(MountEffects(st, m, dev), m)

Mount ==
  /\ phase = "boot"
  /\ LET o == MountOutcome(storage, storageMode, devBuild)
         w == WakeLockMount(WakeState, visible, wakeLockSupported, devBuild)
     IN  /\ storage' = o.storage
         /\ player1Time' = o.p1
         /\ player2Time' = o.p2
         /\ loadError' = o.caught
         /\ IF o.threw THEN Crash(w)
            ELSE /\ phase' = "mounted"
                 /\ wakeLockRef' = w.ref
                 /\ liveLocks' = w.live
                 /\ pendingRequests' = w.pending
                 /\ unsupportedWarnings' = w.unsupported
                 /\ deniedWarningLogged' = w.denied
                 /\ UNCHANGED <<activePlayer, intervals>>
  /\ UNCHANGED <<devBuild, storageMode, visible, wakeLockSupported>>

handlePlayerAreaClick(tappedPlayer) ==
  /\ phase = "mounted"
  /\ CommitActive(Opponent(tappedPlayer))
  /\ UNCHANGED <<phase, devBuild, storageMode, storage, player1Time,
                 player2Time, visible, loadError, wakeLockSupported>>

handlePause ==
  /\ phase = "mounted"
  /\ CommitActive("none")
  /\ UNCHANGED <<phase, devBuild, storageMode, storage, player1Time,
                 player2Time, visible, loadError, wakeLockSupported>>

\* setActivePlayer(null), both times to 0, removeItem; then the commit: the
\* save effect runs again when a time changed.
handleReset ==
  /\ phase = "mounted"
  /\ LET removed == IF RemoveItemThrows(storageMode) THEN storage ELSE NoItem
         changed == <<player1Time, player2Time>> # <<Num(0), Num(0)>>
         s == IF changed THEN SaveEffect(removed, storageMode, Num(0), Num(0))
              ELSE [storage |-> removed, threw |-> FALSE]
     IN  /\ storage' = s.storage
         /\ player1Time' = Num(0)
         /\ player2Time' = Num(0)
         /\ IF s.threw THEN Crash(WakeState)
            ELSE /\ phase' = phase
                 /\ CommitActive("none")
  /\ UNCHANGED <<devBuild, storageMode, visible, loadError, wakeLockSupported>>

\* One firing of the interval whose callback captured player p.
TimeOf(p) == IF p = "player1" THEN player1Time ELSE player2Time
CanCount(v) == IF v.k = "str" THEN Len(v.s) < MaxStrLen ELSE v.n < MaxTime

IntervalFires(p) ==
  /\ phase = "mounted"
  /\ p \in intervals
  /\ CanCount(TimeOf(p))
  /\ LET n1 == IF p = "player1" THEN PlusOne(player1Time) ELSE player1Time
         n2 == IF p = "player2" THEN PlusOne(player2Time) ELSE player2Time
         s == SaveEffect(storage, storageMode, n1, n2)
     IN  /\ player1Time' = n1
         /\ player2Time' = n2
         /\ storage' = s.storage
         /\ IF s.threw THEN Crash(WakeState)
            ELSE UNCHANGED <<phase, activePlayer, intervals, wakeLockRef,
                             liveLocks, pendingRequests, unsupportedWarnings,
                             deniedWarningLogged>>
  /\ UNCHANGED <<devBuild, storageMode, visible, loadError, wakeLockSupported>>

\* (mutant) handleVisibilityChange without its test of activePlayer
handleVisibilityChangeAlways(w, vis) ==
  IF phase = "mounted" /\ wakeLockSupported /\ vis
  THEN RequestWakeLock(w, vis) ELSE w

\* A pending request settles with a new sentinel: the continuation stores it
\* in the ref and subscribes to its 'release' event.
NewLock == CHOOSE id \in LockIds : id \notin liveLocks /\ \A j \in LockIds : j < id => j \in liveLocks

WakeLockGranted ==
  /\ pendingRequests > 0
  /\ visible
  /\ pendingRequests' = pendingRequests - 1
  /\ liveLocks' = liveLocks \cup {NewLock}
  /\ wakeLockRef' = NewLock
  /\ UNCHANGED <<phase, devBuild, storageMode, storage, player1Time,
                 player2Time, activePlayer, intervals, visible, loadError, wakeLockSupported,
                 unsupportedWarnings, deniedWarningLogged>>

\* (mutant) the catch block requests again at once
WakeLockDeniedRetry ==
  /\ pendingRequests > 0
  /\ deniedWarningLogged' = TRUE
  /\ UNCHANGED <<phase, devBuild, storageMode, storage, player1Time,
                 player2Time, activePlayer, intervals, wakeLockRef, liveLocks,
                 pendingRequests, visible, loadError, wakeLockSupported,
                 unsupportedWarnings>>

\* A pending request is rejected with NotAllowedError (denied, or the page
\* is hidden): the catch block logs the warning.
WakeLockDenied ==
  /\ pendingRequests > 0
  /\ pendingRequests' = pendingRequests - 1
  /\ deniedWarningLogged' = TRUE
  /\ UNCHANGED <<phase, devBuild, storageMode, storage, player1Time,
                 player2Time, activePlayer, intervals, wakeLockRef, liveLocks,
                 visible, loadError, wakeLockSupported, unsupportedWarnings>>

\* (mutant) the 'release' listener leaves the ref as it is
PlatformReleasesSilent(id) ==
  /\ id \in liveLocks
  /\ liveLocks' = liveLocks \ {id}
  /\ UNCHANGED <<phase, devBuild, storageMode, storage, player1Time,
                 player2Time, activePlayer, intervals, wakeLockRef,
                 pendingRequests, visible, loadError, wakeLockSupported,
                 unsupportedWarnings, deniedWarningLogged>>

\* The platform releases one sentinel on its own; its listener clears the ref.
PlatformReleases(id) ==
  /\ id \in liveLocks
  /\ liveLocks' = liveLocks \ {id}
  /\ wakeLockRef' = 0
  /\ UNCHANGED <<phase, devBuild, storageMode, storage, player1Time,
                 player2Time, activePlayer, intervals, pendingRequests,
                 visible, loadError, wakeLockSupported,
                 unsupportedWarnings, deniedWarningLogged>>

\* The page goes to the background: the platform releases every sentinel
\* (each listener clears the ref); handleVisibilityChange sees 'hidden'.
PageHidden ==
  /\ visible
  /\ visible' = FALSE
  /\ liveLocks' = {}
  /\ wakeLockRef' = IF liveLocks # {} THEN 0 ELSE wakeLockRef
  /\ UNCHANGED <<phase, devBuild, storageMode, storage, player1Time,
                 player2Time, activePlayer, intervals, pendingRequests,
                 loadError, wakeLockSupported,
                 unsupportedWarnings, deniedWarningLogged>>

\* handleVisibilityChange, subscribed by the wake lock effect of a mounted App.
handleVisibilityChange(w, vis) ==
  IF phase = "mounted" /\ wakeLockSupported /\ vis /\ activePlayer # "none"
  THEN RequestWakeLock(w, vis) ELSE w

PageShown ==
  /\ ~visible
  /\ visible' = TRUE
  /\ LET w == handleVisibilityChange(WakeState, TRUE)
     IN  /\ WithinCap(w)
         /\ wakeLockRef' = w.ref
         /\ liveLocks' = w.live
         /\ pendingRequests' = w.pending
         /\ unsupportedWarnings' = w.unsupported
         /\ deniedWarningLogged' = w.denied
  /\ UNCHANGED <<phase, devBuild, storageMode, storage, player1Time,
                 player2Time, activePlayer, intervals, loadError,
                 wakeLockSupported>>

\* The page is reloaded: the document and everything it held is gone, the
\* localStorage item stays.
Reload ==
  /\ phase \in {"mounted", "crashed"}
  /\ phase' = "boot"
  /\ player1Time' = Num(0)
  /\ player2Time' = Num(0)
  /\ activePlayer' = "none"
  /\ intervals' = {}
  /\ wakeLockRef' = 0
  /\ liveLocks' = {}
  /\ pendingRequests' = 0
  /\ loadError' = "none"
  /\ unsupportedWarnings' = 0
  /\ deniedWarningLogged' = FALSE
  /\ UNCHANGED <<devBuild, storageMode, storage, visible, wakeLockSupported>>

\* localStorage starts or stops failing.
StorageFault(m) ==
  /\ m # storageMode
  /\ phase \in {"boot", "mounted"}
  /\ storageMode' = m
  /\ UNCHANGED <<phase, devBuild, storage, player1Time, player2Time,
                 activePlayer, intervals, wakeLockRef, liveLocks,
                 pendingRequests, visible, loadError, wakeLockSupported,
                 unsupportedWarnings, deniedWarningLogged>>

Next ==
  \/ Mount
  \/ \E tappedPlayer \in Players : handlePlayerAreaClick(tappedPlayer)
  \/ handlePause
  \/ handleReset
  \/ \E p \in Players : IntervalFires(p)
  \/ WakeLockGranted
  \/ WakeLockDenied
  \/ \E id \in LockIds : PlatformReleases(id)
  \/ PageHidden
  \/ PageShown
  \/ Reload

Spec == Init /\ [][Next]_vars

\* The same program with a localStorage that may fail at any time.
NextFault == Next \/ \E m \in {"ok", "quota", "denied"} : StorageFault(m)
FaultSpec == Init /\ [][NextFault]_vars

\* The program on a platform that supports the Wake Lock API and grants
\* every request, the page staying in the foreground: a pending request is
\* settled eventually.
InitGranting == Init /\ wakeLockSupported
NextGranting ==
  \/ Mount
  \/ \E tappedPlayer \in Players : handlePlayerAreaClick(tappedPlayer)
  \/ handlePause
  \/ handleReset
  \/ \E p \in Players : IntervalFires(p)
  \/ WakeLockGranted
  \/ Reload
LiveSpec == InitGranting /\ [][NextGranting]_vars /\ WF_vars(WakeLockGranted)

\* The same platform with the page going to the background and coming back:
\* the sentinels are released when the page is hidden, and a request still
\* in flight on a hidden page is rejected.
WakeLockRejectedHidden == ~visible /\ WakeLockDenied
NextVisibility ==
  \/ NextGranting
  \/ PageHidden
  \/ PageShown
  \/ WakeLockRejectedHidden
VisibilitySpec ==
  InitGranting /\ [][NextVisibility]_vars /\ WF_vars(WakeLockGranted)

\* save(a, b) then load(), on their own: the save effect's body on times
\* (a, b), then the load effect's body on the item it wrote.
RoundTripInit ==
  /\ phase = "rt_input"
  /\ devBuild = FALSE
  /\ storageMode = "ok"
  /\ storage = NoItem
  /\ player1Time \in {Num(a) : a \in 0..MaxRoundTrip}
  /\ player2Time \in {Num(b) : b \in 0..MaxRoundTrip}
  /\ activePlayer = "none"
  /\ intervals = {}
  /\ wakeLockRef = 0
  /\ liveLocks = {}
  /\ pendingRequests = 0
  /\ visible = TRUE
  /\ loadError = "none"
  /\ wakeLockSupported = TRUE
  /\ unsupportedWarnings = 0
  /\ deniedWarningLogged = FALSE

RoundTripSave ==
  /\ phase = "rt_input"
  /\ phase' = "rt_saved"
  /\ storage' = SaveEffect(storage, storageMode, player1Time, player2Time).storage
  /\ UNCHANGED <<devBuild, storageMode, player1Time, player2Time,
                 activePlayer, intervals, wakeLockRef, liveLocks,
                 pendingRequests, visible, loadError, wakeLockSupported,
                 unsupportedWarnings, deniedWarningLogged>>

RoundTripLoad ==
  /\ phase = "rt_saved"
  /\ phase' = "rt_loaded"
  /\ \E l \in {LoadEffect(storage, storageMode)} :
       /\ storage' = l.storage
       /\ player1Time' = l.p1
       /\ player2Time' = l.p2
       /\ loadError' = l.caught
  /\ UNCHANGED <<devBuild, storageMode, activePlayer, intervals, wakeLockRef,
                 liveLocks, pendingRequests, visible, wakeLockSupported,
                 unsupportedWarnings, deniedWarningLogged>>

RoundTripNext == RoundTripSave \/ RoundTripLoad
RoundTripSpec == RoundTripInit /\ [][RoundTripNext]_vars

\* ----------------------------------------------------------- render logic
\* JavaScript `a + b`: addition of two numbers, concatenation as soon as one
\* operand is a string.
ToText(v) == IF v.k = "str" THEN v.s ELSE IntToChars(v.n)
Plus(a, b) ==
  IF a.k = "num" /\ b.k = "num" THEN Num(a.n + b.n)
  ELSE Str(ToText(a) \o ToText(b))

\* `v > 0`: a string is converted to a number first, and the strings that
\* reach the state hold a letter, so they convert to NaN and compare false.
GreaterThanZero(v) == v.k = "num" /\ v.n > 0

\* A quotient n / d, kept as the pair (the code divides two doubles).
Ratio(n, d) == [num |-> n, den |-> d]

totalTime == Plus(player1Time, player2Time)

\* (mutant) player 1's adjustment computed from player 1's own time
AdjustmentOwn(own, other, total) ==
  IF GreaterThanZero(total) THEN Ratio(2 * own.n, total.n) ELSE Ratio(1, 1)

\* totalTime > 0 ? (2 * other) / totalTime : 1, for the player whose time is
\* own and whose opponent's time is other.
Adjustment(own, other, total) ==
  IF GreaterThanZero(total) THEN Ratio(2 * other.n, total.n) ELSE Ratio(1, 1)

player1Adjustment == Adjustment(player1Time, player2Time, totalTime)
player2Adjustment == Adjustment(player2Time, player1Time, totalTime)

\* The render of App on elapsed times drawn from 0..MaxElapsed, on its own.
AdjustInit ==
  /\ phase = "adj_input"
  /\ devBuild = FALSE
  /\ storageMode = "ok"
  /\ storage = NoItem
  /\ player1Time \in {Num(a) : a \in 0..MaxElapsed}
  /\ player2Time \in {Num(b) : b \in 0..MaxElapsed}
  /\ activePlayer = "none"
  /\ intervals = {}
  /\ wakeLockRef = 0
  /\ liveLocks = {}
  /\ pendingRequests = 0
  /\ visible = TRUE
  /\ loadError = "none"
  /\ wakeLockSupported = TRUE
  /\ unsupportedWarnings = 0
  /\ deniedWarningLogged = FALSE

AdjustRender ==
  /\ phase = "adj_input"
  /\ phase' = "adj_rendered"
  /\ UNCHANGED <<devBuild, storageMode, storage, player1Time, player2Time,
                 activePlayer, intervals, wakeLockRef, liveLocks,
                 pendingRequests, visible, loadError, wakeLockSupported,
                 unsupportedWarnings, deniedWarningLogged>>

AdjustSpec == AdjustInit /\ [][AdjustRender]_vars

\* ------------------------------------------------------------------ claims

\* C1: a tap on a player's side always leaves the other player active, never
\* the tapped player and never nobody, whatever the state before the tap.
C1_TapActivatesOpponent ==
  [][ /\ handlePlayerAreaClick("player1") => activePlayer' = "player2"
      /\ handlePlayerAreaClick("player2") => activePlayer' = "player1" ]_vars

\* C1 witness: both players have been handed the clock by a tap.
C1_Witness ==
  /\ phase = "mounted"
  /\ activePlayer = "player1"
  /\ intervals = {"player1"}
  /\ player1Time = Num(1)
  /\ player2Time = Num(1)

\* C2: every firing of the repeating timer adds exactly 1 to the elapsed
\* seconds of the active player and leaves the other player's unchanged, and
\* no timer is alive while nobody is active.
C2_FiringAddsOneToActive ==
  [][ /\ IntervalFires("player1") =>
           /\ activePlayer = "player1"
           /\ player1Time.k = "num"
           /\ player1Time' = Num(player1Time.n + 1)
           /\ player2Time' = player2Time
      /\ IntervalFires("player2") =>
           /\ activePlayer = "player2"
           /\ player2Time.k = "num"
           /\ player2Time' = Num(player2Time.n + 1)
           /\ player1Time' = player1Time
      /\ (activePlayer = "none" => intervals = {}) ]_vars

\* C3: reset leaves the state (0, 0, None) and no item in localStorage, so
\* that a load afterwards finds nothing.
C3_ResetErasesSnapshot ==
  [][ handleReset =>
        /\ player1Time' = Num(0)
        /\ player2Time' = Num(0)
        /\ activePlayer' = "none"
        /\ ~storage'.present ]_vars

\* C4: starting on a well-formed record {p1Time: a, p2Time: b} leaves the
\* elapsed times (a, b) and nobody active.
C4_StartRestoresRecord ==
  [][ \A a, b \in 0..MaxTime :
        (Mount /\ storage = Item(Stringify(Num(a), Num(b)))) =>
          /\ phase' = "mounted"
          /\ player1Time' = Num(a)
          /\ player2Time' = Num(b)
          /\ activePlayer' = "none" ]_vars

\* C5: starting on an item that JSON.parse rejects raises no error, leaves
\* the elapsed times (0, 0) and nobody active, and the rejected text is no
\* longer in localStorage.
C5_UnparseableItemDiscarded ==
  [][ (Mount /\ storage.present /\ ~JSONParse(storage.text).ok) =>
        /\ phase' = "mounted"
        /\ player1Time' = Num(0)
        /\ player2Time' = Num(0)
        /\ activePlayer' = "none"
        /\ storage' # storage
        /\ storage'.present => JSONParse(storage'.text).ok ]_vars

\* C5 witness: the App is mounted after its load effect caught a SyntaxError.
C5_Witness ==
  /\ phase = "mounted"
  /\ loadError = "SyntaxError"
  /\ player1Time = Num(0)
  /\ player2Time = Num(0)

\* C6: starting on an item that parses to an object in which p1Time or p2Time
\* is missing or not a number leaves both elapsed times 0.
FieldsMissingOrNonNumeric(t) ==
  /\ JSONParse(t).ok
  /\ JSONParse(t).k = "obj"
  /\ JSONParse(t).p1.k # "num" \/ JSONParse(t).p2.k # "num"

C6_BadFieldsTreatedAsAbsent ==
  [][ (Mount /\ storage.present /\ FieldsMissingOrNonNumeric(storage.text)) =>
        /\ phase' = "mounted"
        /\ player1Time' = Num(0)
        /\ player2Time' = Num(0) ]_vars

\* C7: a failing localStorage operation is never fatal: the App stays
\* mounted, with its state, its timer and its handlers.
C7_StorageFailureNotFatal == phase # "crashed"

\* C8: while the platform grants requests and the page stays visible, an
\* active player leads to a live wake lock, and a live wake lock stays while
\* that player remains active.
C8_LockHeldWhileActive ==
  /\ (phase = "mounted" /\ activePlayer # "none")
       ~> (liveLocks # {} \/ activePlayer = "none")
  /\ [][ (liveLocks # {} /\ activePlayer # "none" /\ activePlayer' = activePlayer)
           => liveLocks' # {} ]_vars

\* C8 witness: a player is active and the referenced sentinel is live.
C8_Witness ==
  /\ phase = "mounted"
  /\ activePlayer = "player2"
  /\ wakeLockRef \in liveLocks
  /\ pendingRequests = 0

\* C9: once nobody is active and no request is pending, no sentinel is live.
C9_NoLockWhilePaused ==
  (phase = "mounted" /\ activePlayer = "none" /\ pendingRequests = 0)
    => liveLocks = {}

\* C10: what the load effect reads back from the item the save effect wrote
\* for (a, b) is (a, b).
C10_RoundTrip ==
  [][ (phase = "rt_saved" /\ phase' = "rt_loaded") =>
        /\ player1Time' = player1Time
        /\ player2Time' = player2Time ]_vars

\* C10 witness: a two-digit time and 0 have been saved and loaded.
C10_Witness ==
  /\ phase = "rt_loaded"
  /\ player1Time = Num(MaxRoundTrip)
  /\ player2Time = Num(0)
  /\ storage = Item(Stringify(Num(MaxRoundTrip), Num(0)))

\* C11: for non-negative integer elapsed times p1, p2 the rendered
\* adjustments are both exactly 1 when p1 + p2 = 0, and otherwise
\* player1Adjustment = 2*p2/(p1+p2) and player2Adjustment = 2*p1/(p1+p2),
\* which sum to 2.
C11_AdjustmentFormula ==
  phase = "adj_rendered" =>
    LET p1 == player1Time.n
        p2 == player2Time.n
        a1 == player1Adjustment
        a2 == player2Adjustment
    IN  /\ a1.den > 0 /\ a2.den > 0
        /\ p1 + p2 = 0 => (a1.num = a1.den /\ a2.num = a2.den)
        /\ p1 + p2 > 0 =>
              /\ a1.num * (p1 + p2) = 2 * p2 * a1.den
              /\ a2.num * (p1 + p2) = 2 * p1 * a2.den
              /\ a1.num * a2.den + a2.num * a1.den = 2 * a1.den * a2.den

\* C11 witness: times 30 and 90 are rendered with adjustments 3/2 and 1/2.
C11_Witness ==
  /\ phase = "adj_rendered"
  /\ player1Time = Num(30)
  /\ player2Time = Num(90)
  /\ 2 * player1Adjustment.num = 3 * player1Adjustment.den
  /\ 2 * player2Adjustment.num = 1 * player2Adjustment.den

\* C12: pause is idempotent: a pause leaves nobody active, and a pause when
\* nobody is active changes nothing (elapsed times, active player, timers,
\* wake lock, localStorage item), so two pauses in a row leave what one does.
C12_PauseIdempotent ==
  [][ handlePause =>
        /\ activePlayer' = "none"
        /\ activePlayer = "none" => UNCHANGED vars ]_vars

\* C12 witness: the game was paused with a wake-lock request in flight and a
\* second counted by the timer.
C12_Witness ==
  /\ phase = "mounted"
  /\ activePlayer = "none"
  /\ intervals = {}
  /\ pendingRequests = 1
  /\ player1Time = Num(1)
  /\ player2Time = Num(0)

\* C13: in every state at most one interval timer is alive; one is alive
\* exactly when somebody is active, and its callback captured the player who
\* is active now, so a firing never counts for a player no longer active.
C13_OneTimerForActivePlayer ==
  /\ Cardinality(intervals) <= 1
  /\ intervals # {} <=> activePlayer # "none"
  /\ \A p \in intervals : p = activePlayer

\* C13 witness: the clock went from player 1, whose timer counted up to
\* MaxTime, to player 2, whose timer is the only one alive and has fired.
C13_Witness ==
  /\ phase = "mounted"
  /\ activePlayer = "player2"
  /\ intervals = {"player2"}
  /\ player1Time = Num(MaxTime)
  /\ player2Time = Num(1)

\* C14: at most one wake-lock sentinel is live at any instant, whatever the
\* order of taps, pauses, visibility changes and settled requests.
C14_AtMostOneLiveLock == Cardinality(liveLocks) <= 1

\* C15: when the page comes back to the foreground with a player active,
\* the lock having been released while it was hidden, a new request is made
\* and, the platform granting it, a lock is live again while the player stays
\* active and the page visible; with nobody active, coming back to the
\* foreground makes no request.
C15_ReacquireOnVisible ==
  /\ [][ (PageShown /\ phase = "mounted" /\ activePlayer # "none")
           => pendingRequests' = pendingRequests + 1 ]_vars
  /\ [][ (PageShown /\ activePlayer = "none")
           => UNCHANGED <<pendingRequests, liveLocks, wakeLockRef>> ]_vars
  /\ (phase = "mounted" /\ visible /\ activePlayer # "none")
       ~> (liveLocks # {} \/ activePlayer = "none" \/ ~visible)

\* C15 witness: the page was hidden with a player active (a request was
\* rejected there) and shown again, and a lock is live for that player.
C15_Witness ==
  /\ phase = "mounted"
  /\ visible
  /\ activePlayer = "player1"
  /\ deniedWarningLogged
  /\ wakeLockRef \in liveLocks
  /\ pendingRequests = 0

\* C16: when the platform releases the referenced sentinel on its own, the
\* ref becomes null and nothing fails; the ref never designates a released
\* sentinel, and a pause or reset with a null ref releases nothing.
C16_PlatformReleaseClearsRef ==
  /\ [](wakeLockRef # 0 => wakeLockRef \in liveLocks)
  /\ [][ \A id \in LockIds :
           (PlatformReleases(id) /\ wakeLockRef = id) =>
             /\ wakeLockRef' = 0
             /\ id \notin liveLocks'
             /\ phase' = phase
             /\ activePlayer' = activePlayer
             /\ intervals' = intervals ]_vars
  /\ [][ ((handlePause \/ handleReset) /\ wakeLockRef = 0) =>
           (wakeLockRef' = 0 /\ liveLocks' = liveLocks) ]_vars

\* C16 witness: a player is active on a visible page, no request was ever
\* rejected and none is in flight, and the lock that was granted is gone.
C16_Witness ==
  /\ phase = "mounted"
  /\ wakeLockSupported
  /\ visible
  /\ activePlayer = "player2"
  /\ ~deniedWarningLogged
  /\ wakeLockRef = 0
  /\ liveLocks = {}
  /\ pendingRequests = 0

C18_UnsupportedWarnedOnce ==
  (phase = "mounted" /\ ~wakeLockSupported) =>
    /\ unsupportedWarnings = 1
    /\ pendingRequests = 0
    /\ liveLocks = {}
    /\ wakeLockRef = 0

\* C19: whenever a step of the mounted App changes an elapsed time (a timer
\* firing, a start that loads a record, a reset), the item in localStorage
\* afterwards is exactly the record of the two new times, p1Time and p2Time
\* and nothing else, and reading it back gives those times.
C19_SnapshotFollowsTimes ==
  [][ ((player1Time' # player1Time \/ player2Time' # player2Time)
         /\ phase' = "mounted") =>
        /\ storage' = Item(Stringify(player1Time', player2Time'))
        /\ JSONParse(storage'.text).ok
        /\ JSONParse(storage'.text).k = "obj"
        /\ JSONParse(storage'.text).p1 = player1Time'
        /\ JSONParse(storage'.text).p2 = player2Time' ]_vars

\* C19 witness: the timer has counted player 1 up to MaxTime and the item
\* holds that record.
C19_Witness ==
  /\ phase = "mounted"
  /\ activePlayer = "player1"
  /\ player1Time = Num(MaxTime)
  /\ player2Time = Num(0)
  /\ storage = Item(Stringify(Num(MaxTime), Num(0)))

\* C20: apart from a reset, no step replaces a stored elapsed time with a
\* smaller one, from the opening of the page on: a record present at start is
\* never overwritten with zeros or older values.
StoredTimes(st) ==
  IF st.present /\ JSONParse(st.text).ok /\ JSONParse(st.text).k = "obj"
       /\ JSONParse(st.text).p1.k = "num" /\ JSONParse(st.text).p2.k = "num"
  THEN <<JSONParse(st.text).p1.n, JSONParse(st.text).p2.n>>
  ELSE <<0, 0>>

C20_SnapshotMonotonic ==
  [][ handleReset
      \/ ~storage'.present
      \/ /\ StoredTimes(storage')[1] >= StoredTimes(storage)[1]
         /\ StoredTimes(storage')[2] >= StoredTimes(storage)[2] ]_vars

\* C21: in every state, whatever localStorage held when the page was opened
\* and whatever happened since, both elapsed times are integers >= 0 and
\* activePlayer is player1, player2 or null.
C21_TimesAreNaturals ==
  /\ player1Time.k = "num" /\ player1Time.n >= 0
  /\ player2Time.k = "num" /\ player2Time.n >= 0
  /\ activePlayer \in Players \cup {"none"}

\* C22: the ref always designates the live sentinel when there is one: no
\* sentinel is live without the ref designating it, and the release
\* notification of another sentinel never clears the ref of one that is
\* still live.
C22_RefDesignatesLiveLock ==
  /\ [](liveLocks \subseteq {wakeLockRef})
  /\ [][ \A id \in LockIds :
           (PlatformReleases(id) /\ wakeLockRef # id
              /\ wakeLockRef \in liveLocks)
             => wakeLockRef' = wakeLockRef ]_vars
=============================================================================
